---- MODULE Spec2Model ----
(***************************************************************************)
(* Model of the shared-library renaming pipeline of scripts/bootstrap.py   *)
(* (class Bootstrap): the naming transform __adjust_soname, the metadata   *)
(* reader __read_elf, the byte patcher __replace_soname_values, the NEEDED *)
(* consolidator __replace_needed_gst_lib, the two-pass driver __copy_libs, *)
(* the closure verifier __resolve_deps and their caller install_deps.      *)
(*                                                                         *)
(* A Python str / bytes value is a sequence of one-character strings.      *)
(***************************************************************************)
EXTENDS Integers, Sequences, FiniteSets, TLC

VARIABLES
    \* --- the naming transform on its own (specification SpecAdjust)
    initial,                \* the argument of __adjust_soname
    result,                 \* what the call did: returned a value or raised
    \* --- the byte patcher on its own (specification SpecPatch)
    contents,               \* the bytes read from lib_path
    pairs,                  \* the value of self.__soname_replacements
    patched,                \* the bytes written back to lib_path
    \* --- one Bootstrap object and its install_deps calls (specification Spec)
    soname_replacements,    \* self.__soname_replacements: list of (str, str)
    base_needed,            \* self.__base_needed: set of str
    libs_paths,             \* the libraries globbed from the sysroot
    install_list,           \* the install_list argument: None or the listed paths
    lib_dir,                \* the destination directory: basename -> file
    pc,                     \* where the call of install_deps stands
    scanned,                \* the libraries the first loop has been through
    to_patch,               \* what is left of the glob of the second loop
    patched_now,            \* the files the second loop of this call has rewritten
    report,                 \* the two sets __resolve_deps printed
    run,                    \* calls of install_deps on this object so far
    error                   \* the exception that ended the call, if one did

adjVars == <<initial, result>>
patchVars == <<contents, pairs, patched>>
pipeVars == <<soname_replacements, base_needed, libs_paths, install_list,
              lib_dir, pc, scanned, to_patch, patched_now, report, run, error>>
vars == <<adjVars, patchVars, pipeVars>>

----------------------------------------------------------------------------
(* Bounds of the model.                                                    *)

\* longest name, in dot-separated segments, given to the naming transform
MaxSegs == 5
\* most pairs in a registry handed to the byte patcher on its own
MaxPairs == 2
\* most NUL-terminated strings in the bytes handed to the byte patcher
MaxStrs == 2
\* most libraries in one sysroot
MaxLibs == 2
\* most calls of install_deps on one Bootstrap object
MaxRuns == 2

----------------------------------------------------------------------------
(* Python values.                                                          *)

\* Python's None: a value that is no str (no character is the string "None")
None == <<"None">>

Dot == <<".">>
Underscore == <<"_">>
So == <<"s", "o">>
DotSo == <<".", "s", "o">>

\* a function call either returns a value or raises an exception
Return(v) == [kind |-> "return", val |-> v, exc |-> "-"]
Raise(e) == [kind |-> "raise", val |-> <<>>, exc |-> e]
NotCalled == [kind |-> "not called", val |-> <<>>, exc |-> "-"]

\* str.endswith(suffix)
EndsWith(s, suffix) ==
    /\ Len(s) >= Len(suffix)
    /\ SubSeq(s, Len(s) - Len(suffix) + 1, Len(s)) = suffix

\* str.split(sep) for a one-character sep: always at least one segment
RECURSIVE SplitFrom(_, _, _)
SplitFrom(s, sep, from) ==
    LET seps == {i \in from..Len(s) : s[i] = sep}
    IN  IF seps = {} THEN <<SubSeq(s, from, Len(s))>>
        ELSE LET d == CHOOSE i \in seps : \A j \in seps : i <= j
             IN  <<SubSeq(s, from, d - 1)>> \o SplitFrom(s, sep, d + 1)

Split(s, sep) == SplitFrom(s, sep, 1)

\* sep.join(segments)
RECURSIVE Join(_, _)
Join(segments, sep) ==
    IF segments = <<>> THEN <<>>
    ELSE IF Len(segments) = 1 THEN segments[1]
    ELSE segments[1] \o sep \o Join(Tail(segments), sep)

\* bytes.replace(old, new), old not empty: the leftmost match is replaced
\* and the search resumes after it, so the matches replaced do not overlap
RECURSIVE ReplaceFrom(_, _, _, _)
ReplaceFrom(s, old, new, from) ==
    LET found == {j \in from..(Len(s) - Len(old) + 1) :
                     SubSeq(s, j, j + Len(old) - 1) = old}
    IN  IF found = {} THEN SubSeq(s, from, Len(s))
        ELSE LET j == CHOOSE x \in found : \A y \in found : x <= y
             IN  SubSeq(s, from, j - 1) \o new
                     \o ReplaceFrom(s, old, new, j + Len(old))

\* bytes.replace(old, new, 1): only the leftmost match
ReplaceFirstOnly(s, old, new) ==
    LET found == {j \in 1..(Len(s) - Len(old) + 1) :
                     SubSeq(s, j, j + Len(old) - 1) = old}
    IN  IF found = {} THEN s
        ELSE LET j == CHOOSE x \in found : \A y \in found : x <= y
             IN  SubSeq(s, 1, j - 1) \o new \o SubSeq(s, j + Len(old), Len(s))

Replace(s, old, new) == ReplaceFrom(s, old, new, 1)

SeqsUpTo(S, n) == UNION {[1..k -> S] : k \in 0..n}


Range(f) == {f[i] : i \in DOMAIN f}

----------------------------------------------------------------------------
(* Names.                                                                  *)

a_so_1 == <<"a", ".", "s", "o", ".", "1">>
a_so_11 == <<"a", ".", "s", "o", ".", "1", "1">>
a_so_1_1_1 == <<"a", ".", "s", "o", ".", "1", ".", "1", ".", "1">>
a_1 == <<"a", ".", "1">>
so_1_1 == <<"s", "o", ".", "1", ".", "1">>
b_so == <<"b", ".", "s", "o">>
a_so_1_so_2 == <<"a", ".", "s", "o", ".", "1", ".", "s", "o", ".", "2">>
a_so_1_2 == <<"a", ".", "s", "o", ".", "1", ".", "2">>
a_1_so_2 == <<"a", "_", "1", ".", "s", "o", ".", "2">>
one_so_1 == <<"1", ".", "s", "o", ".", "1">>
one_so_1_so_1 == <<"1", ".", "s", "o", ".", "1", ".", "s", "o", ".", "1">>
libnettle_so_6 ==
    <<"l", "i", "b", "n", "e", "t", "t", "l", "e", ".", "s", "o", ".", "6">>
libnettle_6_so ==
    <<"l", "i", "b", "n", "e", "t", "t", "l", "e", "_", "6", ".", "s", "o">>
libWPEWebKit_1_0_3_so ==
    <<"l", "i", "b", "W", "P", "E", "W", "e", "b", "K", "i", "t", "-",
    "1", ".", "0", "_", "3", ".", "s", "o">>
libgstreamer_android_so ==
    <<"l", "i", "b", "g", "s", "t", "r", "e", "a", "m", "e", "r", "_",
    "a", "n", "d", "r", "o", "i", "d", ".", "s", "o">>
libnettle_so_60 ==
    <<"l", "i", "b", "n", "e", "t", "t", "l", "e", ".", "s", "o", ".",
    "6", "0">>

\* the names __replace_needed_gst_lib redirects, in the order of its list
gst_libs ==
    <<
      <<"l", "i", "b", "g", "s", "t", "a", "d", "a", "p", "t", "i", "v",
      "e", "d", "e", "m", "u", "x", "-", "1", ".", "0", ".", "s", "o">>,
      <<"l", "i", "b", "g", "s", "t", "a", "l", "l", "o", "c", "a", "t",
      "o", "r", "s", "-", "1", ".", "0", ".", "s", "o">>,
      <<"l", "i", "b", "g", "s", "t", "a", "p", "p", "-", "1", ".", "0",
      ".", "s", "o">>,
      <<"l", "i", "b", "g", "s", "t", "a", "u", "d", "i", "o", "-", "1",
      ".", "0", ".", "s", "o">>,
      <<"l", "i", "b", "g", "s", "t", "b", "a", "d", "a", "u", "d", "i",
      "o", "-", "1", ".", "0", ".", "s", "o">>,
      <<"l", "i", "b", "g", "s", "t", "b", "a", "s", "e", "c", "a", "m",
      "e", "r", "a", "b", "i", "n", "s", "r", "c", "-", "1", ".", "0",
      ".", "s", "o">>,
      <<"l", "i", "b", "g", "s", "t", "b", "a", "s", "e", "-", "1", ".",
      "0", ".", "s", "o">>,
      <<"l", "i", "b", "g", "s", "t", "c", "h", "e", "c", "k", "-", "1",
      ".", "0", ".", "s", "o">>,
      <<"l", "i", "b", "g", "s", "t", "c", "o", "d", "e", "c", "s", "-",
      "1", ".", "0", ".", "s", "o">>,
      <<"l", "i", "b", "g", "s", "t", "c", "o", "d", "e", "c", "p", "a",
      "r", "s", "e", "r", "s", "-", "1", ".", "0", ".", "s", "o">>,
      <<"l", "i", "b", "g", "s", "t", "p", "b", "u", "t", "i", "l", "s",
      "-", "1", ".", "0", ".", "s", "o">>,
      <<"l", "i", "b", "g", "s", "t", "p", "l", "a", "y", "-", "1", ".",
      "0", ".", "s", "o">>,
      <<"l", "i", "b", "g", "s", "t", "r", "e", "a", "m", "e", "r", "-",
      "1", ".", "0", ".", "s", "o">>,
      <<"l", "i", "b", "g", "s", "t", "s", "d", "p", "-", "1", ".", "0",
      ".", "s", "o">>,
      <<"l", "i", "b", "g", "s", "t", "r", "t", "p", "-", "1", ".", "0",
      ".", "s", "o">>,
      <<"l", "i", "b", "g", "s", "t", "t", "a", "g", "-", "1", ".", "0",
      ".", "s", "o">>,
      <<"l", "i", "b", "g", "s", "t", "u", "r", "i", "d", "o", "w", "n",
      "l", "o", "a", "d", "e", "r", "-", "1", ".", "0", ".", "s", "o">>,
      <<"l", "i", "b", "g", "s", "t", "v", "i", "d", "e", "o", "-", "1",
      ".", "0", ".", "s", "o">>
    >>

----------------------------------------------------------------------------
(* Bootstrap.__init__: the compiled-in tables.                             *)

\* self.__soname_replacements as __init__ sets it
init_soname_replacements == << <<libnettle_so_6, libnettle_6_so>> >>

\* self.__base_needed as __init__ sets it
init_base_needed == {libWPEWebKit_1_0_3_so}

----------------------------------------------------------------------------
(* Bootstrap.__adjust_soname                                               *)

\* the two-version branch with the separator of the version segments kept
adjust_soname_keeps_dot(initial_) ==
    IF EndsWith(initial_, DotSo) THEN Return(initial_)
    ELSE LET split == Split(initial_, ".")
             n == Len(split)
         IN  IF ~(n > 2) THEN Raise("AssertionError")
             ELSE IF split[n - 1] = So
                  THEN Return(Join(SubSeq(split, 1, n - 2), Dot)
                              \o Underscore \o split[n] \o DotSo)
             ELSE IF split[n - 2] = So
                  THEN Return(Join(SubSeq(split, 1, n - 3), Dot)
                              \o Underscore \o split[n - 1]
                              \o Dot \o split[n] \o DotSo)
             ELSE Return(None)

adjust_soname(initial_) ==
    IF EndsWith(initial_, DotSo) THEN Return(initial_)
    ELSE LET split == Split(initial_, ".")
             n == Len(split)
         IN  IF ~(n > 2) THEN Raise("AssertionError")
             ELSE IF split[n - 1] = So
                  THEN Return(Join(SubSeq(split, 1, n - 2), Dot)
                              \o Underscore \o split[n] \o DotSo)
             ELSE IF split[n - 2] = So
                  THEN Return(Join(SubSeq(split, 1, n - 3), Dot)
                              \o Underscore \o split[n - 1]
                              \o Underscore \o split[n] \o DotSo)
             ELSE Return(None)   \* the function falls off its end

----------------------------------------------------------------------------
(* A shared library: the entries of its dynamic section, each naming a     *)
(* string by its offset in the string table, and the string table's bytes. *)
(* (The other bytes of the file hold no library name in this model.)       *)

Nul == "NUL"    \* the byte 0 that ends a string of the string table

RECURSIVE StringTable(_)
StringTable(strs) ==
    IF strs = <<>> THEN <<>>
    ELSE strs[1] \o <<Nul>> \o StringTable(Tail(strs))

RECURSIVE OffsetOf(_, _)
OffsetOf(strs, i) ==
    IF i = 1 THEN 1 ELSE OffsetOf(strs, i - 1) + Len(strs[i - 1]) + 1

ElfFile(sonames, needed) ==
    LET strs == sonames \o needed
    IN  [dynamic |-> [i \in 1..Len(strs) |->
                        [tag |-> IF i <= Len(sonames) THEN "SONAME" ELSE "NEEDED",
                         off |-> OffsetOf(strs, i)]],
         dynstr |-> StringTable(strs)]

\* the string that starts at offset off: up to the next NUL
StringAt(bytes, off) ==
    LET ends == {i \in off..Len(bytes) : bytes[i] = Nul}
    IN  IF ends = {} THEN SubSeq(bytes, off, Len(bytes))
        ELSE SubSeq(bytes, off, (CHOOSE i \in ends : \A j \in ends : i <= j) - 1)

EntryNames(file, tag) ==
    LET entries == SelectSeq(file.dynamic, LAMBDA e : e.tag = tag)
    IN  [i \in 1..Len(entries) |-> StringAt(file.dynstr, entries[i].off)]

----------------------------------------------------------------------------
(* Bootstrap.__read_elf: (soname, needed_list), or the assert's error      *)

read_elf(file) ==
    LET soname_list == EntryNames(file, "SONAME")
        needed_list == EntryNames(file, "NEEDED")
    IN  IF Len(soname_list) # 1 THEN Raise("AssertionError")
        ELSE Return(<<soname_list[1], needed_list>>)

----------------------------------------------------------------------------
(* Bootstrap.__replace_soname_values                                       *)

\* the loop over self.__soname_replacements, in list order
RECURSIVE replace_soname_values(_, _)
replace_soname_values(contents_, replacements) ==
    IF replacements = <<>> THEN contents_
    ELSE replace_soname_values(
             Replace(contents_, replacements[1][1], replacements[1][2]),
             Tail(replacements))

----------------------------------------------------------------------------
(* Bootstrap.__replace_needed_gst_lib: patchelf --replace-needed for every *)
(* name of gst_libs. patchelf leaves the old string in place, adds the new *)
(* name to the string table and points the NEEDED entry at it.             *)

replace_needed_gst_lib(file) ==
    LET hit(e) == e.tag = "NEEDED" /\ StringAt(file.dynstr, e.off) \in Range(gst_libs)
        any == \E i \in DOMAIN file.dynamic : hit(file.dynamic[i])
    IN  IF ~any THEN file
        ELSE [dynamic |-> [i \in DOMAIN file.dynamic |->
                             IF hit(file.dynamic[i])
                             THEN [tag |-> "NEEDED", off |-> Len(file.dynstr) + 1]
                             ELSE file.dynamic[i]],
              dynstr |-> file.dynstr \o libgstreamer_android_so \o <<Nul>>]

----------------------------------------------------------------------------
(* Bootstrap.__copy_libs, first loop: one library of libs_paths.           *)
(* What the loop body does to the registry and to lib_dir, and how it ends.*)

EmptyDir == [n \in {} |-> n]

\* shutil.copy(lib_path, os.path.join(lib_dir, name)): an existing file of
\* that name is overwritten
Copy(dir, name, file) ==
    [n \in DOMAIN dir \cup {name} |-> IF n = name THEN file ELSE dir[n]]

\* Path(dir).glob('*.so')
GlobSo(dir) == {n \in DOMAIN dir : EndsWith(n, DotSo)}

\* "not install_list or lib_path in install_list"
ToInstall(lib, list) == ~list.given \/ list.libs = {} \/ lib \in list.libs

\* [replacements, dir, exc]: the registry and the directory after the body
\* ran for lib, and the exception that ended it ("-" when none did)
scan_lib(lib, replacements, dir, list) ==
    LET elf == read_elf(lib)
    IN  IF elf.kind = "raise"
        THEN [replacements |-> replacements, dir |-> dir, exc |-> elf.exc]
        ELSE
        LET soname == elf.val[1]
            adjusted == adjust_soname(soname)
        IN  IF adjusted.kind = "raise"
            THEN [replacements |-> replacements, dir |-> dir, exc |-> adjusted.exc]
            ELSE
            LET adjusted_soname == adjusted.val
                appended == IF adjusted_soname # soname
                            THEN Append(replacements, <<soname, adjusted_soname>>)
                            ELSE replacements
            IN  IF ~ToInstall(lib, list)
                THEN [replacements |-> appended, dir |-> dir, exc |-> "-"]
                ELSE IF adjusted_soname = None
                \* os.path.join(lib_dir, None)
                THEN [replacements |-> appended, dir |-> dir, exc |-> "TypeError"]
                ELSE [replacements |-> appended,
                      dir |-> Copy(dir, adjusted_soname, lib), exc |-> "-"]

----------------------------------------------------------------------------
(* Bootstrap.__copy_libs, the loop of asserts between the two passes: the  *)
(* first pair that fails decides the exception (len(None) is a TypeError). *)

\* the loop of asserts left out
assert_equal_lengths_skipped(replacements) == "-"

assert_equal_lengths(replacements) ==
    LET bad == {i \in DOMAIN replacements :
                   \/ replacements[i][2] = None
                   \/ Len(replacements[i][1]) # Len(replacements[i][2])}
    IN  IF bad = {} THEN "-"
        ELSE LET first == CHOOSE i \in bad : \A j \in bad : i <= j
             IN  IF replacements[first][2] = None THEN "TypeError"
                 ELSE "AssertionError"

----------------------------------------------------------------------------
(* Bootstrap.__copy_libs, second loop: one file of lib_dir.                *)

patch_lib(file, replacements) ==
    replace_needed_gst_lib(
        [file EXCEPT !.dynstr = replace_soname_values(@, replacements)])

----------------------------------------------------------------------------
(* The sysroots: at most MaxLibs libraries of this pool.                   *)

\* the library of the override table, a library whose SONAME starts with
\* that SONAME, and a library that needs both (and one of gst_libs)
lib_nettle_6 == ElfFile(<<libnettle_so_6>>, <<>>)
lib_nettle_60 == ElfFile(<<libnettle_so_60>>, <<>>)
\* a library whose SONAME is already the name the override table adjusts to
lib_nettle_6_so == ElfFile(<<libnettle_6_so>>, <<>>)
lib_b == ElfFile(<<b_so>>, <<libnettle_so_6, libnettle_so_60, gst_libs[7]>>)
\* SONAMEs the naming transform has no good answer for
lib_so_1_1 == ElfFile(<<so_1_1>>, <<>>)
lib_a_1_1_1 == ElfFile(<<a_so_1_1_1>>, <<>>)
lib_a_dot_1 == ElfFile(<<a_1>>, <<>>)
\* a binary with no SONAME entry
lib_anonymous == ElfFile(<<>>, <<b_so>>)

LibPool == {lib_nettle_6, lib_nettle_60, lib_nettle_6_so, lib_b,
            lib_so_1_1, lib_a_1_1_1, lib_a_dot_1, lib_anonymous}

Sysroots == {S \in SUBSET LibPool : Cardinality(S) <= MaxLibs}

NoList == [given |-> FALSE, libs |-> {}]

InstallLists(libs) == {NoList} \cup {[given |-> TRUE, libs |-> L] : L \in SUBSET libs}

NoError == [phase |-> "-", exc |-> "-"]

----------------------------------------------------------------------------
(* One Bootstrap object: __init__, then calls of install_deps.             *)

AdjustIdle == initial = <<>> /\ result = NotCalled
PatchIdle == contents = <<>> /\ pairs = <<>> /\ patched = NotCalled

PipeInit ==
    /\ soname_replacements = init_soname_replacements
    /\ base_needed = init_base_needed
    /\ libs_paths = {}
    /\ install_list = NoList
    /\ lib_dir = EmptyDir
    /\ pc = "idle"
    /\ scanned = {}
    /\ to_patch = {}
    /\ patched_now = {}
    /\ report = NotCalled
    /\ run = 0
    /\ error = NoError

Init == PipeInit /\ AdjustIdle /\ PatchIdle

\* install_deps(sysroot, install_list) up to the first loop of __copy_libs:
\* without an install list lib_dir is removed and made again
install_deps ==
    /\ pc \in {"idle", "done"}
    /\ run < MaxRuns
    /\ \E libs \in Sysroots : \E list \in InstallLists(libs) :
          /\ libs_paths' = libs
          /\ install_list' = list
          /\ lib_dir' = IF list.given THEN lib_dir ELSE EmptyDir
    /\ pc' = "scan"
    /\ scanned' = {}
    /\ to_patch' = {}
    /\ patched_now' = {}
    /\ report' = NotCalled
    /\ run' = run + 1
    /\ error' = NoError
    /\ UNCHANGED <<soname_replacements, base_needed, adjVars, patchVars>>

\* one turn of "for lib_path in libs_paths" (the glob's order is any order)
copy_libs_scan ==
    /\ pc = "scan"
    /\ \E lib \in libs_paths \ scanned :
          LET after == scan_lib(lib, soname_replacements, lib_dir, install_list)
          IN  /\ soname_replacements' = after.replacements
              /\ lib_dir' = after.dir
              /\ scanned' = scanned \cup {lib}
              /\ IF after.exc = "-"
                 THEN UNCHANGED <<pc, error>>
                 ELSE pc' = "aborted" /\ error' = [phase |-> "scan", exc |-> after.exc]
    /\ UNCHANGED <<base_needed, libs_paths, install_list, to_patch, patched_now,
                   report, run, adjVars, patchVars>>

\* the first loop is over: "for pair in ...: assert len(pair[0]) == len(pair[1])",
\* then the glob of the second loop
copy_libs_check ==
    /\ pc = "scan"
    /\ scanned = libs_paths
    /\ LET exc == assert_equal_lengths(soname_replacements)
       IN  IF exc = "-"
           THEN /\ pc' = "patch"
                /\ to_patch' = GlobSo(lib_dir)
                /\ UNCHANGED error
           ELSE /\ pc' = "aborted"
                /\ error' = [phase |-> "check", exc |-> exc]
                /\ UNCHANGED to_patch
    /\ UNCHANGED <<soname_replacements, base_needed, libs_paths, install_list,
                   lib_dir, scanned, patched_now, report, run, adjVars, patchVars>>

\* "for lib_path in Path(lib_dir).glob('*.so')": every file of the glob is
\* rewritten, each from its own bytes, so the glob's order changes nothing
copy_libs_patch ==
    /\ pc = "patch"
    /\ to_patch # {}
    /\ lib_dir' = [n \in DOMAIN lib_dir |->
                      IF n \in to_patch
                      THEN patch_lib(lib_dir[n], soname_replacements)
                      ELSE lib_dir[n]]
    /\ to_patch' = {}
    /\ patched_now' = patched_now \cup to_patch
    /\ UNCHANGED <<soname_replacements, base_needed, libs_paths, install_list,
                   pc, scanned, report, run, error, adjVars, patchVars>>

\* __copy_libs has returned: __resolve_deps(lib_dir). needed_set is the very
\* set object self.__base_needed, so needed_set.update() changes the latter.
\* A file whose read fails ends the loop with the files read before it
\* (any of the others, the glob's order being any order) already united.
resolve_deps ==
    /\ pc = "patch"
    /\ to_patch = {}
    /\ LET files == {lib_dir[n] : n \in GlobSo(lib_dir)}
           good == {f \in files : read_elf(f).kind = "return"}
           soname_of(f) == read_elf(f).val[1]
           needed_of(S) == UNION {Range(read_elf(f).val[2]) : f \in S}
       IN  IF good = files
           THEN LET soname_set == {soname_of(f) : f \in files}
                    needed_set == base_needed \cup needed_of(files)
                IN  /\ base_needed' = needed_set
                    /\ report' = Return([missing |-> needed_set \ soname_set,
                                         extra |-> soname_set \ needed_set])
                    /\ pc' = "done"
                    /\ UNCHANGED error
           ELSE /\ \E before \in SUBSET good :
                      base_needed' = base_needed \cup needed_of(before)
                /\ pc' = "aborted"
                /\ error' = [phase |-> "resolve", exc |-> "AssertionError"]
                /\ UNCHANGED report
    /\ UNCHANGED <<soname_replacements, libs_paths, install_list, lib_dir,
                   scanned, to_patch, patched_now, run, adjVars, patchVars>>

Next ==
    \/ install_deps
    \/ copy_libs_scan
    \/ copy_libs_check
    \/ copy_libs_patch
    \/ resolve_deps

Spec == Init /\ [][Next]_vars

PipeIdle == PipeInit

----------------------------------------------------------------------------
(* The naming transform on its own: every name of at most MaxSegs segments *)
(* over this segment vocabulary is an input.                               *)

Segments == {<<>>, <<"a">>, So, <<"1">>, <<"2">>, <<"s">>}

Names == {Join(segs, Dot) : segs \in SeqsUpTo(Segments, MaxSegs)}

AdjustInit ==
    /\ initial \in Names
    /\ result = NotCalled
    /\ PatchIdle
    /\ PipeIdle

CallAdjust ==
    /\ result = NotCalled
    /\ result' = adjust_soname(initial)
    /\ UNCHANGED <<initial, patchVars, pipeVars>>

AdjustNext == CallAdjust

SpecAdjust == AdjustInit /\ [][AdjustNext]_vars

----------------------------------------------------------------------------
(* The byte patcher on its own: a registry of at most MaxPairs pairs that  *)
(* the naming transform produces, and bytes holding at most MaxStrs        *)
(* NUL-terminated strings.                                                 *)

PairOf(name) == <<name, adjust_soname(name).val>>

\* pairs the pipeline can hold: the override table's, a name and a name it is
\* a prefix of, a name whose adjusted name contains another original, a name
\* that can overlap itself, and a name that matches once a.so.1 is replaced
PairPool == {<<libnettle_so_6, libnettle_6_so>>, PairOf(a_so_1), PairOf(a_so_11),
             PairOf(a_so_1_so_2), PairOf(one_so_1), PairOf(a_1_so_2)}

StrPool == {a_so_1, a_so_11, a_so_1_so_2, a_so_1_2, one_so_1_so_1, b_so,
            libnettle_so_60}

\* the list may hold a pair twice
Registries == SeqsUpTo(PairPool, MaxPairs)

ContentsPool == {StringTable(strs) : strs \in SeqsUpTo(StrPool, MaxStrs)}

PatchInit ==
    /\ contents \in ContentsPool
    /\ pairs \in Registries
    /\ patched = NotCalled
    /\ AdjustIdle
    /\ PipeIdle

CallReplace ==
    /\ patched = NotCalled
    /\ patched' = Return(replace_soname_values(contents, pairs))
    /\ UNCHANGED <<contents, pairs, adjVars, pipeVars>>

PatchNext == CallReplace

SpecPatch == PatchInit /\ [][PatchNext]_vars

----------------------------------------------------------------------------
(* The naming transform: claims.                                           *)

DotCount(s) == Cardinality({i \in 1..Len(s) : s[i] = "."})

\* position k of s starts a whole segment "so" that is followed by a dot
SoSegmentAt(s, k) ==
    /\ k + 2 <= Len(s)
    /\ s[k] = "s" /\ s[k + 1] = "o" /\ s[k + 2] = "."
    /\ (k = 1 \/ s[k - 1] = ".")

BaseBefore(s, k) == IF k <= 2 THEN <<>> ELSE SubSeq(s, 1, k - 2)
VersionsAfter(s, k) == SubSeq(s, k + 3, Len(s))
FirstDot(s) == CHOOSE i \in 1..Len(s) : s[i] = "." /\ \A j \in 1..(i - 1) : s[j] # "."

\* C2: whenever the naming transform returns a name, the name is as long as
\* the input (stated for every input, the empty base included).
AdjustPreservesLength ==
    (result.kind = "return" /\ result.val # None)
        => Len(result.val) = Len(initial)

\* C3: a name ending in ".so" comes back unchanged; <base>.so.<v> (more than
\* two segments) becomes <base>_<v>.so; <base>.so.<v1>.<v2> becomes
\* <base>_<v1>_<v2>.so, <base> being everything before the "so" segment.
AdjustShapes ==
    result.kind # "not called" =>
        /\ EndsWith(initial, DotSo) => result = Return(initial)
        /\ (~EndsWith(initial, DotSo) /\ DotCount(initial) >= 2) =>
             \A k \in 1..Len(initial) : SoSegmentAt(initial, k) =>
                LET base == BaseBefore(initial, k)
                    vs == VersionsAfter(initial, k)
                IN  /\ DotCount(vs) = 0 =>
                          result = Return(base \o Underscore \o vs \o DotSo)
                    /\ DotCount(vs) = 1 =>
                          LET d == FirstDot(vs)
                              v1 == SubSeq(vs, 1, d - 1)
                              v2 == SubSeq(vs, d + 1, Len(vs))
                          IN  v1 # So =>
                                result = Return(base \o Underscore \o v1
                                                \o Underscore \o v2 \o DotSo)

\* C3's case: a.so.1.2 was given and a_1_2.so came back
AdjustShapesWitness ==
    /\ initial = <<"a", ".", "s", "o", ".", "1", ".", "2">>
    /\ result = Return(<<"a", "_", "1", "_", "2", ".", "s", "o">>)

----------------------------------------------------------------------------
(* The byte patcher: claims.                                               *)

Occurrences(s, old) ==
    {j \in 1..(Len(s) - Len(old) + 1) : SubSeq(s, j, j + Len(old) - 1) = old}

\* the positions of s covered by an occurrence of some pair's original
Covered(s, replacements) ==
    UNION {UNION {j..(j + Len(replacements[p][1]) - 1) :
                     j \in Occurrences(s, replacements[p][1])} :
           p \in DOMAIN replacements}

EqualLengths(replacements) ==
    \A p \in DOMAIN replacements :
        Len(replacements[p][1]) = Len(replacements[p][2])

\* C4 as stated: with equal-length pairs the patched bytes are as long as the
\* input, every occurrence of every original holds its adjusted string, and
\* every byte outside those occurrences is the input's byte.
PatchReplacesEveryOccurrence ==
    (patched.kind = "return" /\ EqualLengths(pairs)) =>
        /\ Len(patched.val) = Len(contents)
        /\ \A p \in DOMAIN pairs : \A j \in Occurrences(contents, pairs[p][1]) :
              SubSeq(patched.val, j, j + Len(pairs[p][1]) - 1) = pairs[p][2]
        /\ \A i \in (1..Len(contents)) \ Covered(contents, pairs) :
              patched.val[i] = contents[i]

\* u and v can share bytes in some text: v laid d places to the right of u
\* agrees with u wherever both lie (u laid exactly on itself does not count)
CanOverlap(u, v) ==
    \E d \in (1 - Len(v))..(Len(u) - 1) :
        /\ d # 0 \/ u # v
        /\ \A i \in 1..Len(u) :
              (1 <= i - d /\ i - d <= Len(v)) => u[i] = v[i - d]

\* no original can overlap an occurrence of itself, another original, or the
\* adjusted string another entry of the list writes
NoOverlaps(replacements) ==
    \A p, q \in DOMAIN replacements :
        /\ ~CanOverlap(replacements[p][1], replacements[q][1])
        /\ p # q => ~CanOverlap(replacements[p][1], replacements[q][2])

\* C4 as amended: with equal-length pairs the patched bytes are as long as
\* the input; bytes holding no original come back unchanged; and when no
\* original can overlap itself, another original or another entry's adjusted
\* string, every occurrence of every original holds its adjusted string and
\* every byte outside those occurrences is the input's byte.
PatchReplacesSeparateOccurrences ==
    (patched.kind = "return" /\ EqualLengths(pairs)) =>
        /\ Len(patched.val) = Len(contents)
        /\ Covered(contents, pairs) = {} => patched.val = contents
        /\ NoOverlaps(pairs) =>
              /\ \A p \in DOMAIN pairs :
                    \A j \in Occurrences(contents, pairs[p][1]) :
                        SubSeq(patched.val, j, j + Len(pairs[p][1]) - 1) = pairs[p][2]
              /\ \A i \in (1..Len(contents)) \ Covered(contents, pairs) :
                    patched.val[i] = contents[i]

\* C4's case: two different pairs that cannot overlap, an occurrence of each
\* original in the bytes, and the bytes patched
PatchedTwoSeparatePairs ==
    /\ patched.kind = "return"
    /\ Len(pairs) = 2 /\ pairs[1] # pairs[2]
    /\ NoOverlaps(pairs)
    /\ Occurrences(contents, pairs[1][1]) # {}
    /\ Occurrences(contents, pairs[2][1]) # {}

\* no pair's adjusted string is, or contains, another pair's original
NoAliasing(replacements) ==
    \A p, q \in DOMAIN replacements :
        p # q => Occurrences(replacements[p][2], replacements[q][1]) = {}

Reordered(replacements, perm) ==
    [i \in DOMAIN replacements |-> replacements[perm[i]]]

\* C9: with no adjusted string re-matching another original, every order of
\* the pairs gives the same patched bytes.
PatchOrderIndependent ==
    (patched.kind = "return" /\ NoAliasing(pairs)) =>
        \A perm \in Permutations(DOMAIN pairs) :
            replace_soname_values(contents, Reordered(pairs, perm)) = patched.val


----------------------------------------------------------------------------
(* The pipeline: claims.                                                   *)

SonameOf(lib) == read_elf(lib).val[1]
NeededOf(lib) == Range(read_elf(lib).val[2])

\* __copy_libs has run to its end
CopyLibsOver == (pc = "patch" /\ to_patch = {}) \/ pc = "done"

\* lib's SONAME is versioned and the naming transform renames it
Renamed(lib) ==
    /\ read_elf(lib).kind = "return"
    /\ adjust_soname(SonameOf(lib)).kind = "return"
    /\ adjust_soname(SonameOf(lib)).val \notin {None, SonameOf(lib)}

\* C1: once __copy_libs is over, every installed library Y of the sysroot that
\* declares as NEEDED the SONAME of a renamed library X of the sysroot holds
\* X's adjusted name and no longer X's original name, whatever else is in the
\* sysroot and whatever the order of the scan.
NeededFollowsRename ==
    CopyLibsOver =>
        \A X \in libs_paths : \A Y \in libs_paths :
            (/\ Renamed(X)
             /\ read_elf(Y).kind = "return"
             /\ SonameOf(X) \in NeededOf(Y)
             /\ ToInstall(Y, install_list)) =>
                LET bytes == lib_dir[adjust_soname(SonameOf(Y)).val].dynstr
                IN  /\ Occurrences(bytes, adjust_soname(SonameOf(X)).val) # {}
                    /\ Occurrences(bytes, SonameOf(X)) = {}

\* C5: within one call nothing is patched before every library is scanned and
\* every pair of the registry is a pair of strings of equal length; a call
\* that the scan or the length check ended has patched nothing, and (lib_dir
\* having been made anew) holds only byte-for-byte copies of sysroot files.
PatchOnlyAfterCheckedScan ==
    /\ patched_now # {} =>
          /\ scanned = libs_paths
          /\ \A i \in DOMAIN soname_replacements :
                /\ soname_replacements[i][2] # None
                /\ Len(soname_replacements[i][1]) = Len(soname_replacements[i][2])
    /\ (pc = "aborted" /\ error.phase \in {"scan", "check"}) => patched_now = {}
    /\ (patched_now = {} /\ ~install_list.given) =>
          \A n \in DOMAIN lib_dir : lib_dir[n] \in libs_paths

\* C5's case: the length check ended a call that had already copied a file
AbortedBeforePatching ==
    /\ pc = "aborted"
    /\ error = [phase |-> "check", exc |-> "AssertionError"]
    /\ DOMAIN lib_dir # {}
    /\ patched_now = {}

\* a name the naming transform is not to answer: it does not end in ".so" and
\* has at most two segments, or no "so" segment second or third from its end
Unsupported(name) ==
    /\ ~EndsWith(name, DotSo)
    /\ \/ DotCount(name) < 2
       \/ ~\E k \in 1..Len(name) :
              SoSegmentAt(name, k) /\ DotCount(VersionsAfter(name, k)) <= 1

\* C6: the scan of a library whose SONAME is unsupported ends the call with an
\* error, and no pair with that SONAME as original is in the registry.
UnsupportedNameFails ==
    \A lib \in scanned :
        (read_elf(lib).kind = "return" /\ Unsupported(SonameOf(lib))) =>
            /\ pc = "aborted" /\ error.phase = "scan"
            /\ \A i \in DOMAIN soname_replacements :
                  soname_replacements[i][1] # SonameOf(lib)

\* C7: the registry holds at most one pair per original name.
RegistryKeyedByOriginal ==
    \A i, j \in DOMAIN soname_replacements :
        soname_replacements[i][1] = soname_replacements[j][1] => i = j

\* the report the claim C8 describes, from the compiled-in seed set
ClosureDiff(dir) ==
    LET files == {dir[n] : n \in GlobSo(dir)}
        soname_set == {SonameOf(f) : f \in files}
        needed_set == init_base_needed \cup UNION {NeededOf(f) : f \in files}
    IN  [missing |-> needed_set \ soname_set, extra |-> soname_set \ needed_set]

\* C8: the report is needed_set - soname_set and soname_set - needed_set,
\* needed_set being the fixed seed set united with the NEEDED lists of the
\* artifacts present.
ReportIsClosureDiff ==
    report.kind = "return" => report.val = ClosureDiff(lib_dir)

\* what holds of C8: the report of the first call on an object
FirstReportIsClosureDiff ==
    (report.kind = "return" /\ run = 1) => report.val = ClosureDiff(lib_dir)

\* C10: every call of install_deps starts from the compiled-in tables.
RunStartsFresh ==
    (pc = "scan" /\ scanned = {}) =>
        /\ soname_replacements = init_soname_replacements
        /\ base_needed = init_base_needed

\* __copy_libs has run to its end on a lib_dir it made anew
CopyLibsOverNoList == CopyLibsOver /\ ~install_list.given

\* every file of lib_dir has a name that ends in ".so"
InstalledNamesEndInSo ==
    CopyLibsOverNoList => \A n \in DOMAIN lib_dir : EndsWith(n, DotSo)

\* every file of lib_dir is named by the SONAME its patched bytes hold
InstalledNamesAreSonames ==
    CopyLibsOverNoList =>
        \A n \in DOMAIN lib_dir :
            /\ read_elf(lib_dir[n]).kind = "return"
            /\ SonameOf(lib_dir[n]) = n

\* scanned libraries of different SONAMEs are installed as different files
InstalledNotOverwritten ==
    CopyLibsOverNoList =>
        \A X \in libs_paths : \A Y \in libs_paths :
            SonameOf(X) # SonameOf(Y) =>
                adjust_soname(SonameOf(X)).val # adjust_soname(SonameOf(Y)).val

\* C11: after a complete __copy_libs with no install list every file of
\* lib_dir has a name that ends in ".so" and equals the SONAME in the file's
\* patched bytes, and libraries of different SONAMEs are installed as
\* different files.
InstalledUnderOwnSoname ==
    /\ InstalledNamesEndInSo
    /\ InstalledNamesAreSonames
    /\ InstalledNotOverwritten

====
